---- MODULE Spec2Model ----
(***************************************************************************)
(* Model of globus_portal_framework/middleware.py: the two exception       *)
(* middlewares ExpiredTokenMiddleware and GlobusAuthExceptionMiddleware.   *)
(*                                                                         *)
(* Text is modelled as a sequence of pieces (single characters wherever    *)
(* the code looks inside the text; one opaque piece for fixed literals).   *)
(* Python values carry their type in the field t, so that truthiness,      *)
(* isinstance and dict.get are computed the way Python computes them.      *)
(***************************************************************************)
EXTENDS Naturals, Sequences, FiniteSets

\* ------------------------------------------------------------------ bounds
MaxPathLen == 3     \* characters of the request path after the leading "/"
MaxGroups == 2      \* records in allowed_user_member_groups
MaxArgs == 2        \* positional arguments of the exception

\* ----------------------------------------------------------- Python values
None == [t |-> "NoneType", v |-> <<>>]
Str(s) == [t |-> "str", v |-> s]
Int(n) == [t |-> "int", v |-> n]
List(s) == [t |-> "list", v |-> s]
Dict(f) == [t |-> "dict", v |-> f]

\* bool(x), as the `if x:` tests of the handler evaluate it
Truthy(x) ==
    CASE x.t = "NoneType" -> FALSE
      [] x.t = "str" -> Len(x.v) > 0
      [] x.t = "list" -> Len(x.v) > 0
      [] x.t = "dict" -> DOMAIN x.v # {}
      [] x.t = "int" -> x.v # 0

\* kwargs.get(key): the value, or None when the key is absent
DictGet(d, key) == IF key \in DOMAIN d.v THEN d.v[key] ELSE None

\* ---------------------------------------------------------------- results
ReturnNone == [kind |-> "None", detail |-> <<>>]
HttpResponseRedirect(url) == [kind |-> "HttpResponseRedirect", detail |-> url]
Raise(name) == [kind |-> "raise", detail |-> <<name>>]

\* reverse('social:begin', kwargs={'backend': 'globus'})
SocialBegin == <<"/", "l", "o", "g", "i", "n", "/", "g", "l", "o", "b", "u", "s", "/">>

\* ------------------------------------------------------------- urlencode
\* characters urllib.parse.quote never escapes (those of the model's alphabet)
AlwaysSafe == {"a", "e", "n", "t", "x", "2", "F"}

\* two-digit upper-case hex code of the characters the model's alphabet has
HexOf == [c \in {"/", "?", "&", "=", "%", "+"} |->
            CASE c = "/" -> <<"2", "F">>
              [] c = "?" -> <<"3", "F">>
              [] c = "&" -> <<"2", "6">>
              [] c = "=" -> <<"3", "D">>
              [] c = "%" -> <<"2", "5">>
              [] c = "+" -> <<"2", "B">>]

\* quote_plus of one character, safe='' (urlencode's default quote_via)
QuoteNoPercent(c) ==
    IF c \in AlwaysSafe \cup {"%"} THEN <<c>>
    ELSE IF c = " " THEN <<"+">>
    ELSE <<"%">> \o HexOf[c]

quote_plus_char(c) ==
    IF c \in AlwaysSafe THEN <<c>>
    ELSE IF c = " " THEN <<"+">>
    ELSE <<"%">> \o HexOf[c]

RECURSIVE quote_plus(_)
quote_plus(s) ==
    IF s = <<>> THEN <<>> ELSE quote_plus_char(Head(s)) \o quote_plus(Tail(s))

\* urlencode({key: value}): one key=value pair, both quoted
urlencode(key, value) == quote_plus(key) \o <<"=">> \o quote_plus(value)

\* ---------------------------------------------------------- str.join/format
JoinTrailing(sep, items) ==
    LET RECURSIVE J(_)
        J(xs) == IF xs = <<>> THEN <<>> ELSE Head(xs) \o sep \o J(Tail(xs))
    IN J(items)

\* sep.join(items)
RECURSIVE join(_, _)
join(sep, items) ==
    IF items = <<>> THEN <<>>
    ELSE IF Len(items) = 1 THEN items[1]
    ELSE items[1] \o sep \o join(sep, Tail(items))

\* str(list_of_text): "['al', 'bo']"
Repr(items) ==
    <<"[">> \o join(<<",", " ">>, [i \in 1..Len(items) |-> <<"'">> \o items[i] \o <<"'">>])
            \o <<"]">>

\* template.format(arg): every "{}" piece of the template is replaced
RECURSIVE format(_, _)
format(template, arg) ==
    IF template = <<>> THEN <<>>
    ELSE (IF Head(template) = "{}" THEN Repr(arg) ELSE <<Head(template)>>)
         \o format(Tail(template), arg)

\* the literal of lines 67-69; it has no replacement field
MessageTemplate ==
    <<"Your current account does not have sufficient access to this resource, but one of your linked identities does. Please login with one of those identities listed below.">>

WarningText ==
    "Authenticating to a group failed due to group not being visible and settings.SOCIAL_AUTH_GLOBUS_GROUP_JOIN_URL not being set. You should reconfigure one of these."

\* ------------------------------------------------------------------ state
VARIABLES
    settings,   \* settings.SOCIAL_AUTH_GLOBUS_GROUP_JOIN_URL, None when unset
    exception,  \* the exception raised while the request was served
    request,    \* the request: user, session and full path
    call,       \* the last call: the middleware and the request it was given
    handled,    \* middlewares the exception has been offered to
    calls,      \* keys of the strategy.session_set calls of the last call
    result,     \* what the last call returned (or raised)
    log         \* log entries the last call emitted

vars == <<settings, exception, request, call, handled, calls, result, log>>


\* ------------------------------------------------------------------ inputs
Users == {"alice", "bob"}
Anonymous == "AnonymousUser"

\* characters a request path is built from
PathChars == {"/", "?", "&", "=", "a", " ", "+", "%", "2", "F"}

RECURSIVE SeqsUpTo(_, _)
SeqsUpTo(S, n) ==
    IF n = 0 THEN {<<>>}
    ELSE LET shorter == SeqsUpTo(S, n - 1)
         IN shorter \cup {Append(s, x) : s \in shorter, x \in S}

\* request.get_full_path(): "/" followed by path and query-string characters
FullPaths == {<<"/">> \o s : s \in SeqsUpTo(PathChars, MaxPathLen)}

EmptySession == [k \in {} |-> None]
AuthSession(u) == [k \in {"_auth_user_id"} |-> Str(<<u>>)]
StaleSession ==
    [k \in {"session_message", "session_required_identities"} |->
        IF k = "session_message" THEN Str(MessageTemplate) ELSE Str(<<"z">>)]

\* user and session of an incoming request
Logins ==
    {[user |-> u, session |-> AuthSession(u)] : u \in Users}
    \cup {[user |-> Anonymous, session |-> EmptySession],
          [user |-> Anonymous, session |-> StaleSession]}

\* one record of allowed_user_member_groups; a malformed record lacks a key
\* or carries an identity_id that is not text
GroupRecords ==
    {[k \in {"identity_id", "username"} |->
        IF k = "identity_id" THEN Str(i) ELSE Str(u)] :
        i \in {<<"a">>, <<"b", "c">>}, u \in {<<"a", "l">>, <<"b", "o">>}}
    \cup {[k \in {"username"} |-> Str(<<"a", "l">>)],
          [k \in {"identity_id"} |-> Str(<<"a">>)],
          [k \in {"identity_id", "username"} |->
              IF k = "identity_id" THEN Int(7) ELSE Str(<<"a", "l">>)]}

ConfiguredJoinUrl == <<"https://example.org/join">>
PayloadJoinUrl == <<"https://app.globus.org/join">>

\* the mapping the globus backend passes to AuthForbidden
Payloads ==
    LET groups == {List(s) : s \in SeqsUpTo(GroupRecords, MaxGroups)}
        urls == {Str(<<>>), Str(PayloadJoinUrl)}
        Mk(g, u) ==
            [k \in (IF g = {} THEN {} ELSE {"allowed_user_member_groups"})
                   \cup (IF u = {} THEN {} ELSE {"group_join_url"}) |->
                IF k = "allowed_user_member_groups"
                THEN (CHOOSE x \in g : TRUE) ELSE (CHOOSE x \in u : TRUE)]
    IN {Dict(Mk(g, u)) : g \in {{}} \cup {{x} : x \in groups},
                         u \in {{}} \cup {{x} : x \in urls}}

\* exception.args: nothing, or a first argument followed by further text
ArgTuples ==
    {<<>>} \cup
    {<<first>> \o rest : first \in Payloads \cup {Str(<<"forbidden">>), Int(403)},
                        rest \in {s \in SeqsUpTo({Str(<<"x">>)}, MaxArgs - 1) : TRUE}}

Backend == [t |-> "GlobusOpenIdConnect", v |-> <<"strategy">>]

Exceptions ==
    {[type |-> "ExpiredGlobusToken", args |-> <<>>, backend |-> None],
     [type |-> "Http404", args |-> <<>>, backend |-> None]}
    \cup {[type |-> "AuthForbidden", args |-> a, backend |-> b] :
            a \in ArgTuples, b \in {Backend, None}}

\* -------------------------------------------------- ExpiredTokenMiddleware
\* isinstance(exception, ExpiredGlobusToken)
MatchesAnyException(exc) == exc.type \in {"ExpiredGlobusToken", "AuthForbidden"}

IsExpiredGlobusToken(exc) == exc.type = "ExpiredGlobusToken"

\* auth.logout(request): the session is flushed, the user becomes anonymous
logout(req) == [req EXCEPT !.user = Anonymous, !.session = EmptySession]

\* log.info('Tokens expired for user {}, redirecting to login.'.format(user))
TokensExpiredEntry(user) ==
    [level |-> "INFO",
     msg |-> <<"Tokens expired for user ", user, ", redirecting to login.">>]

ExpiredLogoutFirst(req, exc) ==
    IF IsExpiredGlobusToken(exc)
    THEN [request |-> logout(req),
          log |-> <<TokensExpiredEntry(logout(req).user)>>,
          calls |-> <<>>,
          result |-> HttpResponseRedirect(
                        SocialBegin \o <<"?">> \o urlencode(<<"n", "e", "x", "t">>, req.path))]
    ELSE [request |-> req, log |-> <<>>, calls |-> <<>>, result |-> ReturnNone]

\* ExpiredTokenMiddleware.process_exception as a function of its inputs
ExpiredTokenHandler(req, exc) ==
    IF IsExpiredGlobusToken(exc)
    THEN LET entry == TokensExpiredEntry(req.user)
             after == logout(req)
             base_url == SocialBegin
             params == urlencode(<<"n", "e", "x", "t">>, after.path)
             url == base_url \o <<"?">> \o params
         IN [request |-> after, log |-> <<entry>>, calls |-> <<>>,
             result |-> HttpResponseRedirect(url)]
    ELSE [request |-> req, log |-> <<>>, calls |-> <<>>, result |-> ReturnNone]


\* ------------------------------------------- GlobusAuthExceptionMiddleware
\* isinstance(exception, AuthForbidden)
IsAuthForbidden(exc) == exc.type = "AuthForbidden"

\* strategy.session_set(name, value) on the strategy's session; st carries the
\* session and the names set so far
session_set(st, name, value) ==
    [session |-> [k \in DOMAIN st.session \cup {name} |->
                     IF k = name THEN value ELSE st.session[k]],
     calls |-> Append(st.calls, name)]

Outcome(req, st, res, entries) ==
    [request |-> [req EXCEPT !.session = st.session],
     calls |-> st.calls, result |-> res, log |-> entries]

WarningEntry == [level |-> "WARNING", msg |-> <<WarningText>>]

JoinUrlPayloadFirst(kwargs, jurl) ==
    IF Truthy(DictGet(kwargs, "group_join_url"))
    THEN [result |-> HttpResponseRedirect(DictGet(kwargs, "group_join_url").v), log |-> <<>>]
    ELSE IF Truthy(jurl)
    THEN [result |-> HttpResponseRedirect(jurl.v), log |-> <<>>]
    ELSE [result |-> ReturnNone, log |-> <<WarningEntry>>]

JoinUrlAlwaysWarns(kwargs, jurl) ==
    IF Truthy(jurl)
    THEN [result |-> HttpResponseRedirect(jurl.v), log |-> <<>>]
    ELSE IF Truthy(DictGet(kwargs, "group_join_url"))
    THEN [result |-> HttpResponseRedirect(DictGet(kwargs, "group_join_url").v),
          log |-> <<WarningEntry>>]
    ELSE [result |-> ReturnNone, log |-> <<WarningEntry>>]

\* lines 88-98: the configured join URL, else the payload's, else a warning
JoinUrlRedirect(kwargs, jurl) ==
    IF Truthy(jurl)
    THEN [result |-> HttpResponseRedirect(jurl.v), log |-> <<>>]
    ELSE LET group_join_url == DictGet(kwargs, "group_join_url")
         IN IF Truthy(group_join_url)
            THEN [result |-> HttpResponseRedirect(group_join_url.v), log |-> <<>>]
            ELSE [result |-> ReturnNone, log |-> <<WarningEntry>>]

SetIdentitiesFirst(req, usernames, req_ids) ==
    LET st0 == [session |-> req.session, calls |-> <<>>]
    IN IF \E i \in 1..Len(req_ids) : req_ids[i].t # "str"
       THEN Outcome(req, st0, Raise("TypeError"), <<>>)
       ELSE
         LET req_ids_string == join(<<",">>, [i \in 1..Len(req_ids) |-> req_ids[i].v])
             st1 == session_set(st0, "session_required_identities",
                                Str(req_ids_string))
             st2 == session_set(st1, "session_message",
                                Str(format(MessageTemplate, usernames)))
         IN Outcome(req, st2, HttpResponseRedirect(SocialBegin), <<>>)

\* lines 65-78: both session entries, then the redirect to the login start
SetSessionAndRedirect(req, usernames, req_ids) ==
    LET st0 == [session |-> req.session, calls |-> <<>>]
        st1 == session_set(st0, "session_message",
                           Str(format(MessageTemplate, usernames)))
    IN \* ','.join raises TypeError on an item that is not text
       IF \E i \in 1..Len(req_ids) : req_ids[i].t # "str"
       THEN Outcome(req, st1, Raise("TypeError"), <<>>)
       ELSE
         LET req_ids_string == join(<<",">>, [i \in 1..Len(req_ids) |-> req_ids[i].v])
             st2 == session_set(st1, "session_required_identities",
                                Str(req_ids_string))
         IN Outcome(req, st2, HttpResponseRedirect(SocialBegin), <<>>)

\* lines 63-78: the branch taken when allowed_user_member_groups is truthy
EligibleIdentityRedirect(req, exc, groups) ==
    LET st0 == [session |-> req.session, calls |-> <<>>]
        n == Len(groups)
    IN \* g['identity_id'] of line 63
       IF \E i \in 1..n : "identity_id" \notin DOMAIN groups[i]
       THEN Outcome(req, st0, Raise("KeyError"), <<>>)
       \* exception.backend.strategy of line 64
       ELSE IF exc.backend.t = "NoneType"
       THEN Outcome(req, st0, Raise("AttributeError"), <<>>)
       \* g['username'] of line 70, evaluated before session_set is called
       ELSE IF \E i \in 1..n : "username" \notin DOMAIN groups[i]
       THEN Outcome(req, st0, Raise("KeyError"), <<>>)
       ELSE SetSessionAndRedirect(req,
                [i \in 1..n |-> groups[i]["username"].v],
                [i \in 1..n |-> groups[i]["identity_id"]])

\* GlobusAuthExceptionMiddleware.process_exception as a function of its inputs
GlobusAuthHandler(req, exc, jurl) ==
    LET st0 == [session |-> req.session, calls |-> <<>>]
    IN IF ~IsAuthForbidden(exc)
       THEN Outcome(req, st0, ReturnNone, <<>>)
       \* exception.args is a tuple for every exception object (line 53)
       ELSE IF Len(exc.args) = 0
       THEN Outcome(req, st0, Raise("IndexError"), <<>>)
       ELSE IF exc.args[1].t # "dict"
       THEN Outcome(req, st0, ReturnNone, <<>>)
       ELSE
         LET kwargs == exc.args[1]
             allowed_user_member_groups == DictGet(kwargs, "allowed_user_member_groups")
         IN IF Truthy(allowed_user_member_groups)
            THEN EligibleIdentityRedirect(req, exc, allowed_user_member_groups.v)
            ELSE LET j == JoinUrlRedirect(kwargs, jurl)
                 IN Outcome(req, st0, j.result, j.log)

\* ---------------------------------------------------------- specification
\* request paths of the requests whose exception never reaches get_full_path
ShortPaths == {<<"/">>}

\* an exception raised while a request is served
Raised ==
    {[login |-> l, path |-> p, exception |-> e] :
        l \in Logins, p \in FullPaths,
        e \in {x \in Exceptions : x.type # "AuthForbidden"}}
    \cup {[login |-> l, path |-> p, exception |-> e] :
        l \in Logins, p \in ShortPaths,
        e \in {x \in Exceptions : x.type = "AuthForbidden"}}

Init ==
    /\ settings \in {None, Str(<<>>), Str(ConfiguredJoinUrl)}
    /\ \E r \in Raised :
          /\ exception = r.exception
          /\ request = [user |-> r.login.user, session |-> r.login.session,
                        path |-> r.path]
    /\ call = [handler |-> "none", request |-> request]
    /\ handled = {}
    /\ calls = <<>>
    /\ result = ReturnNone
    /\ log = <<>>

\* Django offers the exception to each installed middleware until one of them
\* returns a response; out is what the middleware did with it
Apply(handler, out) ==
    /\ handler \notin handled
    /\ result.kind = "None"
    /\ call' = [handler |-> handler, request |-> request]
    /\ handled' = handled \cup {handler}
    /\ request' = out.request
    /\ calls' = out.calls
    /\ result' = out.result
    /\ log' = out.log
    /\ UNCHANGED <<settings, exception>>

ExpiredTokenMiddleware_process_exception ==
    Apply("ExpiredTokenMiddleware", ExpiredTokenHandler(request, exception))

GlobusAuthExceptionMiddleware_process_exception ==
    Apply("GlobusAuthExceptionMiddleware",
          GlobusAuthHandler(request, exception, settings))

Next ==
    \/ ExpiredTokenMiddleware_process_exception
    \/ GlobusAuthExceptionMiddleware_process_exception

Spec == Init /\ [][Next]_vars


\* ------------------------------------------------------- reading the state
ByExpiredToken == call.handler = "ExpiredTokenMiddleware"
ByGlobusAuth == call.handler = "GlobusAuthExceptionMiddleware"

\* an AuthForbidden whose first argument is a mapping
Recognized ==
    /\ exception.type = "AuthForbidden"
    /\ Len(exception.args) > 0
    /\ exception.args[1].t = "dict"

HasGroups ==
    /\ Recognized
    /\ "allowed_user_member_groups" \in DOMAIN exception.args[1].v
    /\ Len(exception.args[1].v["allowed_user_member_groups"].v) > 0

GroupsOf == exception.args[1].v["allowed_user_member_groups"].v

\* every record carries a text identity_id and a text username, and the
\* exception carries its backend
WellFormedGroups ==
    /\ HasGroups
    /\ exception.backend.t # "NoneType"
    /\ \A i \in 1..Len(GroupsOf) :
          /\ DOMAIN GroupsOf[i] = {"identity_id", "username"}
          /\ GroupsOf[i]["identity_id"].t = "str"
          /\ GroupsOf[i]["username"].t = "str"

ConfigSet == settings.t = "str" /\ Len(settings.v) > 0

PayloadHasUrl ==
    /\ Recognized
    /\ "group_join_url" \in DOMAIN exception.args[1].v
    /\ Len(exception.args[1].v["group_join_url"].v) > 0

RECURSIVE SumLen(_, _)
SumLen(items, n) == IF n = 0 THEN 0 ELSE Len(items[n]) + SumLen(items, n - 1)

\* s is items[1],items[2],...: each item at its place, one "," between two
\* neighbours, nothing before the first and nothing after the last
IsCommaJoined(s, items) ==
    LET n == Len(items)
        start(i) == SumLen(items, i - 1) + i
    IN /\ Len(s) = SumLen(items, n) + (IF n = 0 THEN 0 ELSE n - 1)
       /\ \A i \in 1..n :
             /\ start(i) + Len(items[i]) - 1 <= Len(s)
             /\ SubSeq(s, start(i), start(i) + Len(items[i]) - 1) = items[i]
             /\ i < n => /\ start(i) + Len(items[i]) <= Len(s)
                         /\ s[start(i) + Len(items[i])] = ","

\* text occurs in s
Contains(s, text) ==
    \E i \in 1..Len(s) :
        /\ i + Len(text) - 1 <= Len(s)
        /\ SubSeq(s, i, i + Len(text) - 1) = text

\* URL decoding of a query component: "+" is a space, %XX is a character
RECURSIVE UrlDecode(_)
UrlDecode(s) ==
    IF s = <<>> THEN <<>>
    ELSE IF Head(s) = "+" THEN <<" ">> \o UrlDecode(Tail(s))
    ELSE IF Head(s) = "%" /\ Len(s) >= 3
            /\ <<s[2], s[3]>> \in {<<"2", "F">>, <<"3", "F">>, <<"2", "6">>,
                                   <<"3", "D">>, <<"2", "5">>, <<"2", "B">>}
    THEN LET h == <<s[2], s[3]>>
             c == CASE h = <<"2", "F">> -> "/"
                    [] h = <<"3", "F">> -> "?"
                    [] h = <<"2", "6">> -> "&"
                    [] h = <<"3", "D">> -> "="
                    [] h = <<"2", "5">> -> "%"
                    [] h = <<"2", "B">> -> "+"
         IN <<c>> \o UrlDecode(SubSeq(s, 4, Len(s)))
    ELSE <<Head(s)>> \o UrlDecode(Tail(s))

\* position of the first c in s, Len(s) + 1 when there is none
RECURSIVE FirstAt(_, _, _)
FirstAt(s, c, i) ==
    IF i > Len(s) THEN i ELSE IF s[i] = c THEN i ELSE FirstAt(s, c, i + 1)
Before(s, c) == SubSeq(s, 1, FirstAt(s, c, 1) - 1)
After(s, c) == SubSeq(s, FirstAt(s, c, 1) + 1, Len(s))

\* the key=value fields of a query string
RECURSIVE QueryFields(_)
QueryFields(q) ==
    IF FirstAt(q, "&", 1) > Len(q) THEN <<q>>
    ELSE <<Before(q, "&")>> \o QueryFields(After(q, "&"))


\* ----------------------------------------------------------------- claims

\* C1 (as stated): for an AuthForbidden whose payload is not a mapping -- a
\* plain string first argument, any other non-mapping first argument, or no
\* arguments at all -- GlobusAuthExceptionMiddleware returns None and does
\* not raise.
C1_NonMappingPayloadDeclined ==
    (/\ ByGlobusAuth
     /\ exception.type = "AuthForbidden"
     /\ (Len(exception.args) = 0 \/ exception.args[1].t # "dict"))
    => result = ReturnNone

\* C2: for a notice whose mapping has a non-empty allowed_user_member_groups of
\* identity records, session_required_identities is exactly the identity_id
\* values joined by "," in order, and the result is a redirect to the login
\* start, whatever the configured and the payload join URL are.
C2_RequiredIdentitiesJoined ==
    (ByGlobusAuth /\ WellFormedGroups)
    => /\ result = HttpResponseRedirect(SocialBegin)
       /\ "session_required_identities" \in DOMAIN request.session
       /\ request.session["session_required_identities"].t = "str"
       /\ IsCommaJoined(request.session["session_required_identities"].v,
                        [i \in 1..Len(GroupsOf) |-> GroupsOf[i]["identity_id"].v])

C2_Witness ==
    /\ ByGlobusAuth
    /\ WellFormedGroups
    /\ Len(GroupsOf) = 2
    /\ GroupsOf[1]["identity_id"] # GroupsOf[2]["identity_id"]
    /\ ConfigSet
    /\ PayloadHasUrl
    /\ result.kind = "HttpResponseRedirect"

\* C3: with empty or absent allowed_user_member_groups, a configured
\* SOCIAL_AUTH_GLOBUS_GROUP_JOIN_URL is the redirect target whatever the
\* payload carries; without it, the payload's group_join_url is the target.
C3_JoinUrlPrecedence ==
    (ByGlobusAuth /\ Recognized /\ ~HasGroups)
    => /\ ConfigSet => result = HttpResponseRedirect(settings.v)
       /\ (~ConfigSet /\ PayloadHasUrl)
             => result = HttpResponseRedirect(exception.args[1].v["group_join_url"].v)

C3_Witness ==
    /\ ByGlobusAuth
    /\ Recognized
    /\ ~HasGroups
    /\ ConfigSet
    /\ PayloadHasUrl
    /\ exception.args[1].v["group_join_url"].v # settings.v
    /\ result.kind = "HttpResponseRedirect"

\* C4: for an ExpiredGlobusToken the redirect target is the login start path,
\* "?", and a single query field next whose URL-decoded value is exactly the
\* request's full path.
C4_NextRoundTrips ==
    (ByExpiredToken /\ exception.type = "ExpiredGlobusToken")
    => /\ result.kind = "HttpResponseRedirect"
       /\ Before(result.detail, "?") = SocialBegin
       /\ FirstAt(result.detail, "?", 1) <= Len(result.detail)
       /\ LET fields == QueryFields(After(result.detail, "?"))
          IN /\ Len(fields) = 1
             /\ FirstAt(fields[1], "=", 1) <= Len(fields[1])
             /\ UrlDecode(Before(fields[1], "=")) = <<"n", "e", "x", "t">>
             /\ UrlDecode(After(fields[1], "=")) = call.request.path

C4_Witness ==
    /\ ByExpiredToken
    /\ exception.type = "ExpiredGlobusToken"
    /\ result.kind = "HttpResponseRedirect"
    /\ \E i, j, k \in 2..Len(call.request.path) :
          /\ call.request.path[i] = "?"
          /\ call.request.path[j] \in {"&", "="}
          /\ call.request.path[k] = "%"

\* C5 (as stated): for an AuthForbidden whose first argument is a mapping,
\* missing or malformed fields never make the handler raise; every call ends
\* in one of the five outcomes.
C5_RecognizedNoticeNeverRaises ==
    (ByGlobusAuth /\ Recognized) => result.kind # "raise"

\* C6 (as stated): in the eligible-identity outcome the session_message
\* written to the session contains the username of every eligible identity.
C6_MessageNamesUsernames ==
    (ByGlobusAuth /\ WellFormedGroups /\ result.kind = "HttpResponseRedirect")
    => /\ "session_message" \in DOMAIN request.session
       /\ \A i \in 1..Len(GroupsOf) :
             Contains(request.session["session_message"].v,
                      GroupsOf[i]["username"].v)

\* C7: with empty or absent allowed_user_member_groups, no configured join URL
\* and no payload join URL the handler returns None and logs one warning; no
\* other call of either handler logs a warning.
UnresolvableFailure ==
    ByGlobusAuth /\ Recognized /\ ~HasGroups /\ ~ConfigSet /\ ~PayloadHasUrl

C7_WarningOnlyOnFallback ==
    /\ UnresolvableFailure
          => /\ result = ReturnNone
             /\ Len(log) = 1
             /\ log[1].level = "WARNING"
    /\ ~UnresolvableFailure
          => \A i \in 1..Len(log) : log[i].level # "WARNING"

C7_Witness ==
    /\ UnresolvableFailure
    /\ Len(log) = 1
    /\ "group_join_url" \in DOMAIN exception.args[1].v

\* C8: for an exception that is not an ExpiredGlobusToken,
\* ExpiredTokenMiddleware returns None, the user stays logged in, the session
\* is untouched and nothing is logged.
C8_OtherExceptionUntouched ==
    (ByExpiredToken /\ exception.type # "ExpiredGlobusToken")
    => /\ result = ReturnNone
       /\ request.user = call.request.user
       /\ request.session = call.request.session
       /\ calls = <<>>
       /\ log = <<>>

C8_Witness ==
    /\ ByExpiredToken
    /\ exception.type = "AuthForbidden"
    /\ call.request.user \in Users
    /\ request.user \in Users
    /\ "_auth_user_id" \in DOMAIN request.session

\* C9: for an ExpiredGlobusToken the handler leaves the request's user
\* unauthenticated and emits exactly one info entry, which names the user that
\* was authenticated when the handler was called.
C9_LoggedThenLoggedOut ==
    (ByExpiredToken /\ exception.type = "ExpiredGlobusToken")
    => /\ request.user = Anonymous
       /\ "_auth_user_id" \notin DOMAIN request.session
       /\ Len(log) = 1
       /\ log[1].level = "INFO"
       /\ log[1].msg[2] = call.request.user

C9_Witness ==
    /\ ByExpiredToken
    /\ exception.type = "ExpiredGlobusToken"
    /\ call.request.user \in Users
    /\ request.user = Anonymous
    /\ Len(log) = 1

\* C10: GlobusAuthExceptionMiddleware writes the session only in the
\* eligible-identity branch; when that branch returns its redirect it has set
\* session_message and then session_required_identities and nothing else; in
\* each of the other four outcomes the session is as it was.
C10_SessionWrittenOnlyWhenEligible ==
    ByGlobusAuth
    => /\ (HasGroups /\ result.kind = "HttpResponseRedirect")
             => /\ calls = <<"session_message", "session_required_identities">>
                /\ DOMAIN request.session =
                      DOMAIN call.request.session
                         \cup {"session_message", "session_required_identities"}
                /\ \A k \in DOMAIN call.request.session
                              \ {"session_message", "session_required_identities"} :
                      request.session[k] = call.request.session[k]
       /\ (~HasGroups /\ result.kind # "raise")
             => /\ calls = <<>>
                /\ request.session = call.request.session
       /\ (calls # <<>> \/ request.session # call.request.session) => HasGroups

C10_Witness ==
    /\ ByGlobusAuth
    /\ HasGroups
    /\ result.kind = "HttpResponseRedirect"
    /\ "_auth_user_id" \in DOMAIN call.request.session
    /\ "session_message" \notin DOMAIN call.request.session
    /\ calls = <<"session_message", "session_required_identities">>

====
